---- MODULE Spec2Model ----
(***************************************************************************)
(* Model of the session API server (src/server.js): the JSONL session      *)
(* summariser parseSessionFile and the three read handlers                 *)
(* GET /api/sessions, GET /api/sessions/:sessionId and GET /api/stats,     *)
(* reading a directory of session logs that an external agent writes.      *)
(*                                                                         *)
(* JavaScript strings that the code takes apart (file names, session keys, *)
(* labels, message text) are sequences of one-character strings; values    *)
(* that are only compared (event type, model, stopReason, status) are TLA+ *)
(* strings.  An optional JSON field is a set: {} when the field is absent  *)
(* (undefined or null), {v} when it holds v.                               *)
(***************************************************************************)
EXTENDS Integers, Sequences, FiniteSets, TLC

VARIABLES dir, now, resp, req

vars == <<dir, now, resp, req>>

----------------------------------------------------------------------------
(* Bounds of the model *)

\* longest log, in lines, of the summariser specification
MaxLines == 3
\* the clock of the store specification runs from 0 to MaxTime minutes
MaxTime == 2

----------------------------------------------------------------------------
(* String.prototype helpers on sequences of characters *)

IsPrefixAt(p, s, i) ==
    /\ i >= 1
    /\ i + Len(p) - 1 <= Len(s)
    /\ \A k \in 1..Len(p) : s[i + k - 1] = p[k]

Includes(s, p) == \E i \in 1..(Len(s) + 1) : IsPrefixAt(p, s, i)

StartsWith(s, p) == IsPrefixAt(p, s, 1)

EndsWith(s, p) == Len(p) <= Len(s) /\ IsPrefixAt(p, s, Len(s) - Len(p) + 1)

WhiteSpace == {" ", "\t", "\n", "\r"}

\* number of characters of s from position i up to the first position in
\* stops, the positions from i on whose character ends the run
RunFrom(s, i, stops) ==
    IF stops = {} THEN (IF i > Len(s) THEN 0 ELSE Len(s) - i + 1)
    ELSE (CHOOSE j \in stops : \A k \in stops : j <= k) - i

Trim(s) ==
    LET keep == {j \in 1..Len(s) : s[j] \notin WhiteSpace}
    IN  IF keep = {} THEN <<>>
        ELSE SubSeq(s, CHOOSE j \in keep : \A k \in keep : j <= k,
                       CHOOSE j \in keep : \A k \in keep : j >= k)

UpperCase == <<"A","B","C","D","E","F","G","H","I","J","K","L","M",
               "N","O","P","Q","R","S","T","U","V","W","X","Y","Z">>
LowerCase == <<"a","b","c","d","e","f","g","h","i","j","k","l","m",
               "n","o","p","q","r","s","t","u","v","w","x","y","z">>

ToLower(c) ==
    IF \E k \in 1..26 : UpperCase[k] = c
    THEN LowerCase[CHOOSE k \in 1..26 : UpperCase[k] = c]
    ELSE c

----------------------------------------------------------------------------
(* String literals of the source *)

DotJsonl   == <<".","j","s","o","n","l">>
DotDeleted == <<".","d","e","l","e","t","e","d">>
DotLock    == <<".","l","o","c","k">>
DotJson    == <<".","j","s","o","n">>
JsonlDeleted == DotJsonl \o DotDeleted
SubagentMarker == <<"s","u","b","a","g","e","n","t">>
KeyPrefix  == <<"a","g","e","n","t",":","m","a","i","n",":">>
YourTask   == <<"Y","o","u","r"," ","T","a","s","k">>
LabelWord  == <<"l","a","b","e","l">>
MainLabel  == <<"M","a","i","n">>
SubAgentLabel == <<"S","u","b","-","a","g","e","n","t">>

HexChars == {"a","b","c","d","e","f","0","1","2","3","4","5","6","7","8","9","-"}

\* the class [a-f0-9-]
IsIdChar(c) == c \in HexChars

\* filename.match(/^([a-f0-9-]+)\.jsonl/): the class excludes ".", so the
\* only possible match is the maximal run of class characters followed by
\* ".jsonl".
extractSessionId(filename) ==
    LET n == RunFrom(filename, 1, {j \in 1..Len(filename) : ~IsIdChar(filename[j])})
    IN  IF n >= 1 /\ IsPrefixAt(DotJsonl, filename, n + 1)
        THEN SubSeq(filename, 1, n)
        ELSE filename

----------------------------------------------------------------------------
(* Decoded JSON values.  A log line is blank, fails JSON.parse, or decodes *)
(* to a value: null, a scalar/array (every property read gives undefined)  *)
(* or an object.  A decoded value is a record of the properties the code   *)
(* reads; a scalar is the record with every property absent.               *)

Absent == {}

Some(v) == {v}

Val(o) == CHOOSE v \in o : TRUE

Usage(tokens, cost) == [totalTokens |-> tokens, cost |-> cost]

Cost(total) == [total |-> total]

Message(usage, model, stopReason, content) ==
    [usage |-> usage, model |-> model, stopReason |-> stopReason,
     content |-> content]

TextItem(text) == [text |-> Some(text)]

Data(label, modelId) == [label |-> label, modelId |-> modelId]

Object(type, id, message, data, customType) ==
    [isNull |-> FALSE, type |-> type, id |-> id, message |-> message,
     data |-> data, customType |-> customType]

Scalar == Object(Absent, Absent, Absent, Absent, Absent)

Null == [Scalar EXCEPT !.isNull = TRUE]

BlankLine   == [kind |-> "blank", value |-> Scalar]
InvalidLine == [kind |-> "invalid", value |-> Scalar]
JsonLine(v) == [kind |-> "json", value |-> v]

----------------------------------------------------------------------------
(* parseSessionFile, src/server.js lines 31-128 *)

\* lines 44-52: blank lines and lines JSON.parse rejects are skipped
RECURSIVE decodeLines(_)
decodeLines(raw) ==
    IF raw = <<>> THEN <<>>
    ELSE IF Head(raw).kind = "json"
         THEN <<Head(raw).value>> \o decodeLines(Tail(raw))
         ELSE decodeLines(Tail(raw))

\* Array.prototype.find: the first of the positions whose element
\* satisfies the callback, 0 if there is none
FindFirst(hits) ==
    IF hits = {} THEN 0 ELSE CHOOSE i \in hits : \A j \in hits : i <= j

\* reading a property of null raises TypeError (lines 55 and 59)
readsNull(lines) == \E i \in 1..Len(lines) : lines[i].isNull

isSessionLine(l) == l.type = Some("session")

\* lines 55-56
sessionKeyOf(lines, sessionId) ==
    LET i == FindFirst({k \in 1..Len(lines) : isSessionLine(lines[k])})
    IN  IF i # 0 /\ lines[i].id # Absent /\ Val(lines[i].id) # <<>>
        THEN KeyPrefix \o Val(lines[i].id)
        ELSE sessionId

isMessageLine(l) == l.type = Some("message") /\ l.message # Absent

\* line 59
messagelinesOf(lines) == SelectSeq(lines, isMessageLine)

\* addUsage with the cost added only under a token count
addUsageCostUnderTokens(acc, msg) ==
    IF msg.usage # Absent /\ Val(msg.usage).totalTokens # Absent
    THEN LET u == Val(msg.usage)
             hasCost == /\ u.cost # Absent
                        /\ Val(u.cost).total # Absent
         IN  [acc EXCEPT !.totalTokens = @ + Val(u.totalTokens),
                         !.totalCost = IF hasCost
                                       THEN @ + Val(Val(u.cost).total)
                                       ELSE @]
    ELSE acc

\* addUsage keeping the usage of the latest message only
addUsageOverwrites(acc, msg) ==
    IF msg.usage # Absent
    THEN LET u == Val(msg.usage)
             tokens == IF u.totalTokens # Absent THEN Val(u.totalTokens) ELSE 0
             hasCost == /\ u.cost # Absent
                        /\ Val(u.cost).total # Absent
         IN  [acc EXCEPT !.totalTokens = tokens,
                         !.totalCost = IF hasCost
                                       THEN Val(Val(u.cost).total)
                                       ELSE 0]
    ELSE acc

\* lines 69-74
addUsage(acc, msg) ==
    IF msg.usage # Absent
    THEN LET u == Val(msg.usage)
             tokens == IF u.totalTokens # Absent THEN Val(u.totalTokens) ELSE 0
             hasCost == /\ u.cost # Absent
                        /\ Val(u.cost).total # Absent
                        /\ Val(Val(u.cost).total) # 0
         IN  [acc EXCEPT !.totalTokens = @ + tokens,
                         !.totalCost = IF hasCost
                                       THEN @ + Val(Val(u.cost).total)
                                       ELSE @]
    ELSE acc

\* lines 75-77
setModel(acc, msg) ==
    IF msg.model # Absent /\ Val(msg.model) # ""
    THEN [acc EXCEPT !.model = Val(msg.model)]
    ELSE acc

\* setLastStatus keeping the first stop reason seen
setLastStatusFirstWins(acc, msg) ==
    IF msg.stopReason # Absent /\ Val(msg.stopReason) # "" /\ acc.lastStatus = "idle"
    THEN [acc EXCEPT !.lastStatus =
              IF Val(msg.stopReason) = "toolUse" THEN "running" ELSE "completed"]
    ELSE acc

\* lines 78-80
setLastStatus(acc, msg) ==
    IF msg.stopReason # Absent /\ Val(msg.stopReason) # ""
    THEN [acc EXCEPT !.lastStatus =
              IF Val(msg.stopReason) = "toolUse" THEN "running" ELSE "completed"]
    ELSE acc

\* lines 62-65
InitAcc == [totalTokens |-> 0, totalCost |-> 0, model |-> "unknown",
            lastStatus |-> "idle"]

\* lines 67-81
RECURSIVE accumulate(_, _)
accumulate(msgs, acc) ==
    IF msgs = <<>> THEN acc
    ELSE LET msg == Val(Head(msgs).message)
         IN  accumulate(Tail(msgs),
                        setLastStatus(setModel(addUsage(acc, msg), msg), msg))

\* the class ['":\s] of the label pattern
IsLabelSep(c) == c \in ({"'", "\"", ":"} \cup WhiteSpace)

\* the class [^'"}\n] of the label pattern
IsLabelChar(c) == c \notin {"'", "\"", "}", "\n"}

\* text.match(/label['":\s]+([^'"}\n]+)/i), line 93: the capture of the
\* leftmost match, both runs greedy, the separator run giving characters back
\* to the capture when that is the only way to match; <<FALSE, <<>>>> when
\* the pattern does not match.
labelMatch(text) ==
    LET wordAt(p) == /\ p + 4 <= Len(text)
                     /\ \A k \in 1..5 : ToLower(text[p + k - 1]) = LabelWord[k]
        sepRun(p) == RunFrom(text, p + 5,
                             {j \in (p + 5)..Len(text) : ~IsLabelSep(text[j])})
        capture(g) == RunFrom(text, g,
                              {j \in g..Len(text) : ~IsLabelChar(text[j])})
        seps(p) == {a \in 1..sepRun(p) :
                       /\ p + 5 + a <= Len(text)
                       /\ IsLabelChar(text[p + 5 + a])}
        starts == {p \in 1..Len(text) : wordAt(p) /\ seps(p) # {}}
    IN  IF starts = {} THEN <<FALSE, <<>>>>
        ELSE LET p == CHOOSE q \in starts : \A r \in starts : q <= r
                 a == CHOOSE b \in seps(p) : \A c \in seps(p) : b >= c
                 g == p + 5 + a
             IN  <<TRUE, SubSeq(text, g, g + capture(g) - 1)>>

isLabelLine(l) ==
    /\ l.type = Some("custom")
    /\ l.data # Absent
    /\ Val(l.data).label # Absent
    /\ Val(Val(l.data).label) # <<>>

isTaskLine(l) ==
    /\ l.type = Some("message")
    /\ l.message # Absent
    /\ Len(Val(l.message).content) >= 1
    /\ Val(l.message).content[1].text # Absent
    /\ Includes(Val(Val(l.message).content[1].text), YourTask)

\* lines 90-97
subagentLabel(lines) ==
    LET t == FindFirst({k \in 1..Len(lines) : isTaskLine(lines[k])})
    IN  IF t # 0
        THEN LET m == labelMatch(Val(Val(lines[t].message).content[1].text))
             IN  IF m[1] THEN Trim(m[2]) ELSE SubAgentLabel
        ELSE SubAgentLabel

\* labelOf testing the session key before the label events
labelOfKeyFirst(lines, sessionKey) ==
    LET i == FindFirst({k \in 1..Len(lines) : isLabelLine(lines[k])})
    IN  IF Includes(sessionKey, SubagentMarker) THEN subagentLabel(lines)
        ELSE IF i # 0 THEN Val(Val(lines[i].data).label)
        ELSE MainLabel

\* lines 84-98
labelOf(lines, sessionKey) ==
    LET i == FindFirst({k \in 1..Len(lines) : isLabelLine(lines[k])})
    IN  IF i # 0 THEN Val(Val(lines[i].data).label)
        ELSE IF Includes(sessionKey, SubagentMarker) THEN subagentLabel(lines)
        ELSE MainLabel

isModelLine(l) == l.customType = Some("model-snapshot")

\* lines 101-104
modelOf(lines, scanned) ==
    LET i == FindFirst({k \in 1..Len(lines) : isModelLine(lines[k])})
    IN  IF /\ i # 0
           /\ lines[i].data # Absent
           /\ Val(lines[i].data).modelId # Absent
           /\ Val(Val(lines[i].data).modelId) # ""
        THEN Val(Val(lines[i].data).modelId)
        ELSE scanned

\* statusOf without the archival override
statusOfIgnoresArchive(isDeleted, totalTokens, lastStatus) ==
    IF totalTokens > 0 THEN lastStatus
    ELSE IF isDeleted THEN "archived" ELSE "idle"

\* statusOf without the token test
statusOfIgnoresTokens(isDeleted, totalTokens, lastStatus) ==
    IF isDeleted THEN "archived" ELSE lastStatus

\* lines 107-112
statusOf(isDeleted, totalTokens, lastStatus) ==
    LET initial == IF isDeleted THEN "archived" ELSE "idle"
    IN  IF totalTokens > 0 /\ ~isDeleted THEN lastStatus
        ELSE IF isDeleted THEN "archived"
        ELSE initial

\* line 35
isDeletedName(filename) == Includes(filename, DotDeleted)

\* lines 114-127.  lastUpdated is stats.mtime as epoch milliseconds: the
\* handlers only order it through new Date(iso), and toISOString followed by
\* new Date returns the same millisecond.  createdAt (birthtime) is left out.
summaryOf(filename, file) ==
    LET lines == decodeLines(file.lines)
        sessionId == extractSessionId(filename)
        sessionKey == sessionKeyOf(lines, sessionId)
        msgs == messagelinesOf(lines)
        acc == accumulate(msgs, InitAcc)
        isDeleted == isDeletedName(filename)
    IN  [sessionId |-> sessionId,
         sessionKey |-> sessionKey,
         label |-> labelOf(lines, sessionKey),
         model |-> modelOf(lines, acc.model),
         totalTokens |-> acc.totalTokens,
         totalCost |-> acc.totalCost,
         status |-> statusOf(isDeleted, acc.totalTokens, acc.lastStatus),
         messageCount |-> Len(msgs),
         lastUpdated |-> file.mtime,
         filePath |-> filename,
         isDeleted |-> isDeleted]

\* parseSessionFile rejects when fs.statSync throws (line 32), when the read
\* stream fails (lines 38-44: readline passes the error of its input on to
\* the for-await loop), or when a decoded line is null.
parseThrows(file) ==
    \/ file.fault # "none"
    \/ readsNull(decodeLines(file.lines))

NoSession ==
    [sessionId |-> <<>>, sessionKey |-> <<>>, label |-> <<>>, model |-> "",
     totalTokens |-> 0, totalCost |-> 0, status |-> "", messageCount |-> 0,
     lastUpdated |-> 0, filePath |-> <<>>, isDeleted |-> FALSE]

\* lines 31-128: <<threw, session>>
parseSessionFile(filename, file) ==
    IF parseThrows(file) THEN [threw |-> TRUE, session |-> NoSession]
    ELSE [threw |-> FALSE, session |-> summaryOf(filename, file)]

----------------------------------------------------------------------------
(* The log store: SESSIONS_DIR as a map from file name to the file, if any. *)
(* A file is its lines, its modification time (epoch milliseconds) and a   *)
(* fault: "stat" when its metadata cannot be read (fs.statSync throws and  *)
(* fs.existsSync is false), "read" when it cannot be opened for reading.   *)

ActiveA   == <<"a","1">> \o DotJsonl
ArchivedA == ActiveA \o DotDeleted \o <<".","1">>
ActiveB   == <<"b","2">> \o DotJsonl
LockB     == ActiveB \o DotLock

\* fs.readdirSync lists the entries in this order
NameOrder == <<ActiveA, ArchivedA, ActiveB, LockB>>

Names == {NameOrder[i] : i \in 1..Len(NameOrder)}

IdA == <<"a","1">>
IdB == <<"b","2">>

MsPerMinute == 60 * 1000

File(lines, mtime, fault) == [lines |-> lines, mtime |-> mtime, fault |-> fault]

Present(name) == name \in Names /\ dir[name] # Absent

\* fs.readdirSync(SESSIONS_DIR)
readdir == SelectSeq(NameOrder, Present)

\* fs.existsSync(path)
existsSync(name) == Present(name) /\ Val(dir[name]).fault # "stat"

\* fs.statSync(path) throws
statThrows(name) == ~Present(name) \/ Val(dir[name]).fault = "stat"

----------------------------------------------------------------------------
(* Responses.  resp is what the handler that ran in the last step sent;    *)
(* it is NoResp after a step of the log writer or of the clock.            *)

NoStats == [totalSessions |-> 0, activeToday |-> 0, archivedCount |-> 0,
            activeSessions |-> 0, totalTokens |-> 0, totalCost |-> 0]

\* no request for a session is in flight
NoReq == [pc |-> "idle", sessionId |-> <<>>, filePath |-> <<>>, mtime |-> 0]

NoResp == [op |-> "none", status |-> 0, activeMinutes |-> Absent,
           includeArchived |-> TRUE, sessionId |-> <<>>,
           sessions |-> <<>>, stats |-> NoStats]

----------------------------------------------------------------------------
(* GET /api/sessions, lines 133-174 *)

\* line 135: parseInt(req.query.activeMinutes) || 1440, the query parameter
\* being absent or a decimal integer
activeMinutesOf(w) == IF w = Absent \/ Val(w) = 0 THEN 1440 ELSE Val(w)

\* line 137
cutoffOf(w) == now - (activeMinutesOf(w) * 60 * 1000)

\* lines 140-145
isListCandidate(f, includeArchived) ==
    /\ \/ EndsWith(f, DotJsonl)
       \/ includeArchived /\ Includes(f, JsonlDeleted)
    /\ ~EndsWith(f, DotLock)
    /\ ~EndsWith(f, DotJson)

\* line 154
inWindow(mtime, cutoff) == ~(mtime < cutoff)

\* lines 149-162: <<threw, sessions>>; fs.statSync (line 151) is outside the
\* try block of lines 156-161
RECURSIVE scanFiles(_, _, _)
scanFiles(files, cutoff, sessions) ==
    IF files = <<>> THEN [threw |-> FALSE, sessions |-> sessions]
    ELSE LET file == Head(files)
         IN  IF statThrows(file) THEN [threw |-> TRUE, sessions |-> <<>>]
             ELSE IF ~inWindow(Val(dir[file]).mtime, cutoff)
                  THEN scanFiles(Tail(files), cutoff, sessions)
             ELSE LET r == parseSessionFile(file, Val(dir[file]))
                  IN  IF r.threw
                      THEN scanFiles(Tail(files), cutoff, sessions)
                      ELSE scanFiles(Tail(files), cutoff,
                                     Append(sessions, r.session))

\* line 165: Array.prototype.sort is stable; a goes before b when
\* new Date(b.lastUpdated) - new Date(a.lastUpdated) is negative or zero
RECURSIVE insertSorted(_, _)
insertSorted(sorted, x) ==
    IF sorted = <<>> THEN <<x>>
    ELSE IF Head(sorted).lastUpdated - x.lastUpdated < 0
         THEN <<x>> \o sorted
         ELSE <<Head(sorted)>> \o insertSorted(Tail(sorted), x)

RECURSIVE sortSessions(_)
sortSessions(sessions) ==
    IF sessions = <<>> THEN <<>>
    ELSE insertSorted(sortSessions(SubSeq(sessions, 1, Len(sessions) - 1)),
                      sessions[Len(sessions)])

ListSessions(w, includeArchived) ==
    LET isCandidate(f) == isListCandidate(f, includeArchived)
        files == SelectSeq(readdir, isCandidate)
        scan == scanFiles(files, cutoffOf(w), <<>>)
    IN  /\ resp' = [NoResp EXCEPT
                       !.op = "list",
                       !.activeMinutes = w,
                       !.includeArchived = includeArchived,
                       !.status = IF scan.threw THEN 500 ELSE 200,
                       !.sessions = IF scan.threw THEN <<>>
                                    ELSE sortSessions(scan.sessions)]
        /\ UNCHANGED <<dir, now, req>>

----------------------------------------------------------------------------
(* GET /api/sessions/:sessionId, lines 179-200 *)

\* resolveSessionFile without the search for an archived file
resolveSessionFileActiveOnly(sessionId) ==
    LET active == sessionId \o DotJsonl
    IN  IF existsSync(active) THEN Some(active) ELSE Absent

\* lines 182-193: the file to summarise, Absent for the 404 answer
resolveSessionFile(sessionId) ==
    LET active == sessionId \o DotJsonl
        isDeletedOf(f) == StartsWith(f, sessionId \o JsonlDeleted)
        d == FindFirst({k \in 1..Len(readdir) : isDeletedOf(readdir[k])})
    IN  IF existsSync(active) THEN Some(active)
        ELSE IF d # 0 THEN Some(readdir[d])
        ELSE Absent

GetSession(sessionId) ==
    LET target == resolveSessionFile(sessionId)
        r == parseSessionFile(Val(target), Val(dir[Val(target)]))
    IN  /\ resp' = [NoResp EXCEPT
                       !.op = "get",
                       !.sessionId = sessionId,
                       !.status = IF target = Absent THEN 404
                                  ELSE IF r.threw THEN 500 ELSE 200,
                       !.sessions = IF target = Absent \/ r.threw THEN <<>>
                                    ELSE <<r.session>>]
        /\ UNCHANGED <<dir, now, req>>

----------------------------------------------------------------------------
(* GET /api/stats, lines 205-252 *)

\* line 208
isStatsCandidate(f) ==
    Includes(f, DotJsonl) /\ ~EndsWith(f, DotLock) /\ ~EndsWith(f, DotJson)

\* lines 216-217, the server's time zone taken to be UTC
MsPerDay == 24 * 60 * MsPerMinute

todayOf == now - (now % MsPerDay)

\* tallyFiles counting a file only once it has been summarised
RECURSIVE tallyFilesCountInsideTry(_, _)
tallyFilesCountInsideTry(files, t) ==
    IF files = <<>> THEN [threw |-> FALSE, stats |-> t]
    ELSE LET file == Head(files)
         IN  IF statThrows(file) THEN [threw |-> TRUE, stats |-> NoStats]
             ELSE LET f == Val(dir[file])
                      r == parseSessionFile(file, f)
                  IN  tallyFilesCountInsideTry(Tail(files),
                        IF r.threw THEN t
                        ELSE [t EXCEPT
                                !.totalSessions = @ + 1,
                                !.archivedCount =
                                    IF Includes(file, DotDeleted) THEN @ + 1 ELSE @,
                                !.activeToday =
                                    IF f.mtime >= todayOf THEN @ + 1 ELSE @,
                                !.totalTokens = @ + r.session.totalTokens,
                                !.totalCost = @ + r.session.totalCost])

\* lines 219-238: <<threw, tally>>; fs.statSync (line 221) is outside the try
\* block of lines 231-237
RECURSIVE tallyFiles(_, _)
tallyFiles(files, t) ==
    IF files = <<>> THEN [threw |-> FALSE, stats |-> t]
    ELSE LET file == Head(files)
         IN  IF statThrows(file) THEN [threw |-> TRUE, stats |-> NoStats]
             ELSE LET f == Val(dir[file])
                      r == parseSessionFile(file, f)
                      counted ==
                        [t EXCEPT
                           !.totalSessions = @ + 1,
                           !.archivedCount =
                               IF Includes(file, DotDeleted) THEN @ + 1 ELSE @,
                           !.activeToday =
                               IF f.mtime >= todayOf THEN @ + 1 ELSE @]
                  IN  tallyFiles(Tail(files),
                        IF r.threw THEN counted
                        ELSE [counted EXCEPT
                                !.totalTokens = @ + r.session.totalTokens,
                                !.totalCost = @ + r.session.totalCost])

\* lines 240-248
statsBody(t) == [t EXCEPT !.activeSessions = t.totalSessions - t.archivedCount]

GetStats ==
    LET tally == tallyFiles(SelectSeq(readdir, isStatsCandidate), NoStats)
    IN  /\ resp' = [NoResp EXCEPT
                       !.op = "stats",
                       !.status = IF tally.threw THEN 500 ELSE 200,
                       !.stats = IF tally.threw THEN NoStats
                                 ELSE statsBody(tally.stats)]
        /\ UNCHANGED <<dir, now, req>>

----------------------------------------------------------------------------
(* Log lines the agent writes *)

SubagentId == SubagentMarker \o <<":","7">>
LabelOne == <<"L","1">>
LabelTwo == <<"L","2">>
TaskOnly == YourTask
TaskFix  == YourTask \o <<"\n","l","a","b","e","l",":"," ","f","i","x","\n">>
TaskMain == YourTask \o <<"\n","L","a","b","e","l",":"," ","M","a","i","n"," ">>

SessionEvent == Object(Some("session"), Some(SubagentId), Absent, Absent, Absent)

MessageEvent(m) == Object(Some("message"), Absent, Some(m), Absent, Absent)

CustomEvent(data, customType) ==
    Object(Some("custom"), Absent, Absent, data, customType)

\* usage {totalTokens: 2, cost: {total: 3}}, model m1, stopReason toolUse
MsgTool == Message(Some(Usage(Some(2), Some(Cost(Some(3))))), Some("m1"),
                   Some("toolUse"), <<>>)
\* usage {totalTokens: 1}, stopReason stop
MsgStop == Message(Some(Usage(Some(1), Absent)), Absent, Some("stop"), <<>>)
\* usage {cost: {total: 2}}, model m2
MsgCost == Message(Some(Usage(Absent, Some(Cost(Some(2))))), Some("m2"),
                   Absent, <<>>)
\* no usage, stopReason toolUse, task text without a label
MsgBare == Message(Absent, Absent, Some("toolUse"), <<TextItem(TaskOnly)>>)
\* task texts naming a label
MsgTaskFix  == Message(Absent, Absent, Absent, <<TextItem(TaskFix)>>)
MsgTaskMain == Message(Absent, Absent, Absent, <<TextItem(TaskMain)>>)

\* usage {totalTokens: -1, cost: {total: -1}}: the code takes any number
MsgNegative == Message(Some(Usage(Some(-1), Some(Cost(Some(-1))))), Absent,
                       Absent, <<>>)

Messages == {MsgTool, MsgStop, MsgCost, MsgBare, MsgTaskFix, MsgTaskMain,
             MsgNegative}

\* custom events: a label, a label with a model snapshot, a model snapshot
\* without modelId and with an empty label, a model snapshot
CustomLabel == CustomEvent(Some(Data(Some(LabelOne), Absent)), Absent)
CustomBoth  == CustomEvent(Some(Data(Some(LabelTwo), Some("snapB"))),
                           Some("model-snapshot"))
CustomBare  == CustomEvent(Some(Data(Some(<<>>), Absent)), Some("model-snapshot"))
CustomSnap  == CustomEvent(Some(Data(Absent, Some("snapA"))),
                           Some("model-snapshot"))

Customs == {CustomLabel, CustomBoth, CustomBare, CustomSnap}

SummaryLines ==
    {BlankLine, InvalidLine, JsonLine(Null), JsonLine(Scalar),
     JsonLine(SessionEvent)}
    \cup {JsonLine(MessageEvent(m)) : m \in Messages}
    \cup {JsonLine(c) : c \in Customs}

\* files of the store specification: a log that summarises, a log with a
\* null line, a log whose metadata cannot be read, a log that cannot be
\* opened, and an empty lock file
GoodLog == <<JsonLine(MessageEvent(MsgTool))>>
CorruptLog == <<JsonLine(Null)>>

StoreInputs ==
    {<<ActiveA, GoodLog, "none">>, <<ActiveA, CorruptLog, "none">>,
     <<ActiveB, GoodLog, "none">>, <<ActiveB, GoodLog, "stat">>,
     <<ActiveB, GoodLog, "read">>, <<LockB, <<>>, "none">>}

SessionIds == {IdA, IdB}

WindowParams == {Absent, Some(0), Some(1)}

----------------------------------------------------------------------------
(* Steps of the log writer and of the clock *)

\* the agent appends a line to a log
AppendLine(f, l) ==
    /\ Present(f)
    /\ Len(Val(dir[f]).lines) < MaxLines
    /\ dir' = [dir EXCEPT ![f] =
                  Some([Val(@) EXCEPT !.lines = Append(@, l), !.mtime = now])]
    /\ resp' = NoResp
    /\ UNCHANGED <<now, req>>

\* a file appears in the directory
CreateLog(f, lines, fault) ==
    /\ ~Present(f)
    /\ dir' = [dir EXCEPT ![f] = Some(File(lines, now, fault))]
    /\ resp' = NoResp
    /\ UNCHANGED <<now, req>>

\* the agent archives a log: the active file is renamed
ArchiveLog(f) ==
    LET g == f \o DotDeleted \o <<".","1">>
    IN  /\ Present(f)
        /\ g \in Names
        /\ ~Present(g)
        /\ dir' = [dir EXCEPT ![f] = Absent, ![g] = dir[f]]
        /\ resp' = NoResp
        /\ UNCHANGED <<now, req>>

Tick ==
    /\ now < MaxTime * MsPerMinute
    /\ now' = now + MsPerMinute
    /\ resp' = NoResp
    /\ UNCHANGED <<dir, req>>

----------------------------------------------------------------------------
(* Summariser specification: one log, active or archived, grows line by    *)
(* line and is summarised through GET /api/sessions/:sessionId.            *)

Init ==
    /\ \E n \in {ActiveA, ArchivedA} :
          dir = [f \in Names |-> IF f = n THEN Some(File(<<>>, 0, "none"))
                                 ELSE Absent]
    /\ now = 0
    /\ resp = NoResp
    /\ req = NoReq

Next ==
    \/ \E f \in Names, l \in SummaryLines : AppendLine(f, l)
    \/ GetSession(IdA)

Spec == Init /\ [][Next]_vars

(* Store specification: logs appear, are archived and age; the three       *)
(* handlers answer requests.                                               *)

InitStore ==
    /\ dir = [f \in Names |-> Absent]
    /\ now = 0
    /\ resp = NoResp
    /\ req = NoReq

NextStore ==
    \/ \E i \in StoreInputs : CreateLog(i[1], i[2], i[3])
    \/ \E f \in Names : ArchiveLog(f)
    \/ Tick
    \/ \E w \in WindowParams, a \in BOOLEAN : ListSessions(w, a)
    \/ \E id \in SessionIds : GetSession(id)
    \/ GetStats

StoreSpec == InitStore /\ [][NextStore]_vars

----------------------------------------------------------------------------
(* GET /api/sessions/:sessionId step by step, lines 179-200 and 31-52: the *)
(* handler makes four separate calls into the file system, and the agent   *)
(* that owns the directory can rename a log between any two of them.       *)

\* lines 182-183: the request is taken and the active path is built
GetBegin(sessionId) ==
    /\ req.pc = "idle"
    /\ req' = [pc |-> "exists", sessionId |-> sessionId,
               filePath |-> sessionId \o DotJsonl, mtime |-> 0]
    /\ resp' = NoResp
    /\ UNCHANGED <<dir, now>>

\* line 184: fs.existsSync(filePath)
GetExists ==
    /\ req.pc = "exists"
    /\ req' = [req EXCEPT !.pc = IF existsSync(req.filePath) THEN "stat"
                                 ELSE "readdir"]
    /\ resp' = NoResp
    /\ UNCHANGED <<dir, now>>

\* lines 186-192: fs.readdirSync and the search for an archived file
GetReaddir ==
    LET isDeletedOf(f) == StartsWith(f, req.sessionId \o JsonlDeleted)
        d == FindFirst({k \in 1..Len(readdir) : isDeletedOf(readdir[k])})
    IN  /\ req.pc = "readdir"
        /\ IF d # 0
           THEN /\ req' = [req EXCEPT !.pc = "stat", !.filePath = readdir[d]]
                /\ resp' = NoResp
           ELSE /\ req' = NoReq
                /\ resp' = [NoResp EXCEPT !.op = "get",
                                          !.sessionId = req.sessionId,
                                          !.status = 404]
        /\ UNCHANGED <<dir, now>>

\* line 32: fs.statSync(filePath) throws when the path is gone or its
\* metadata cannot be read; the catch of line 197 answers 500
GetStat ==
    /\ req.pc = "stat"
    /\ IF ~statThrows(req.filePath)
       THEN /\ req' = [req EXCEPT !.pc = "read",
                                  !.mtime = Val(dir[req.filePath]).mtime]
            /\ resp' = NoResp
       ELSE /\ req' = NoReq
            /\ resp' = [NoResp EXCEPT !.op = "get",
                                      !.sessionId = req.sessionId,
                                      !.status = 500]
    /\ UNCHANGED <<dir, now>>

\* lines 38-127 and 196-198: the file is opened and read under the path
\* resolved earlier and summarised with the modification time read at line
\* 32; a path that is gone makes the read fail, which is taken to reject as
\* an unreadable file does
GetRead ==
    LET r == parseSessionFile(req.filePath,
                              [Val(dir[req.filePath]) EXCEPT
                                  !.mtime = req.mtime])
        failed == ~Present(req.filePath) \/ r.threw
    IN  /\ req.pc = "read"
        /\ req' = NoReq
        /\ resp' = [NoResp EXCEPT
                       !.op = "get",
                       !.sessionId = req.sessionId,
                       !.status = IF failed THEN 500 ELSE 200,
                       !.sessions = IF failed THEN <<>> ELSE <<r.session>>]
        /\ UNCHANGED <<dir, now>>

\* readable, well-formed logs and a lock file
RaceInputs == {i \in StoreInputs : i[2] # CorruptLog /\ i[3] = "none"}

NextRace ==
    \/ \E i \in RaceInputs : CreateLog(i[1], i[2], i[3])
    \/ \E f \in Names : ArchiveLog(f)
    \/ Tick
    \/ \E id \in SessionIds : GetBegin(id)
    \/ GetExists
    \/ GetReaddir
    \/ GetStat
    \/ GetRead

RaceSpec == InitStore /\ [][NextRace]_vars

TypeOK ==
    /\ resp.op \in {"none", "list", "get", "stats"}
    /\ req.pc \in {"idle", "exists", "readdir", "stat", "read"}
    /\ resp.status \in {0, 200, 404, 500}
    /\ now \in 0..(MaxTime * MsPerMinute)

----------------------------------------------------------------------------
(* Vocabulary of the properties *)

\* the last step answered GET /api/sessions/:sessionId with a summary
GotSummary == resp.op = "get" /\ resp.status = 200

TheSummary == resp.sessions[1]

\* the lines of the log file the summary was computed from
SourceLines == Val(dir[TheSummary.filePath]).lines

\* a log line that is a message event carrying a message payload
IsMessageEvent(line) ==
    /\ line.kind = "json"
    /\ ~line.value.isNull
    /\ line.value.type = {"message"}
    /\ line.value.message # {}

PayloadOf(line) == Val(line.value.message)

CarriesUsage(line) == IsMessageEvent(line) /\ PayloadOf(line).usage # {}

TokensIn(line) ==
    IF CarriesUsage(line) /\ Val(PayloadOf(line).usage).totalTokens # {}
    THEN Val(Val(PayloadOf(line).usage).totalTokens)
    ELSE 0

CostIn(line) ==
    IF /\ CarriesUsage(line)
       /\ Val(PayloadOf(line).usage).cost # {}
       /\ Val(Val(PayloadOf(line).usage).cost).total # {}
    THEN Val(Val(Val(PayloadOf(line).usage).cost).total)
    ELSE 0

RECURSIVE SumSeq(_)
SumSeq(ns) == IF ns = <<>> THEN 0 ELSE Head(ns) + SumSeq(Tail(ns))


CarriesStopReason(line) ==
    /\ IsMessageEvent(line)
    /\ PayloadOf(line).stopReason # {}
    /\ PayloadOf(line).stopReason # {""}

StopPositions(raw) == {i \in 1..Len(raw) : CarriesStopReason(raw[i])}

LastStopReason(raw) ==
    Val(PayloadOf(raw[CHOOSE i \in StopPositions(raw) :
                         \A j \in StopPositions(raw) : i >= j]).stopReason)

----------------------------------------------------------------------------
(* Properties of the summary *)

\* C1: totalTokens is the sum of usage.totalTokens and totalCost the sum of
\* usage.cost.total over the message events that carry a payload with a
\* usage field, an absent count or cost counting 0; no other line counts.
C1_TotalsAreSums ==
    GotSummary =>
        /\ TheSummary.totalTokens = SumSeq([i \in 1..Len(SourceLines) |-> TokensIn(SourceLines[i])])
        /\ TheSummary.totalCost = SumSeq([i \in 1..Len(SourceLines) |-> CostIn(SourceLines[i])])

\* three usage-bearing messages, one without a cost, one without a count
C1_Witness ==
    /\ GotSummary
    /\ Len(SourceLines) = 3
    /\ \A i \in 1..3 : CarriesUsage(SourceLines[i])
    /\ \E i \in 1..3 : Val(PayloadOf(SourceLines[i]).usage).cost = {}
    /\ \E i \in 1..3 : Val(PayloadOf(SourceLines[i]).usage).totalTokens = {}
    /\ TheSummary.totalTokens = 3
    /\ TheSummary.totalCost = 5

\* C2: the status is 'archived' exactly when the file name carries the
\* archival marker, whatever the log holds.
C2_ArchivedIffMarked ==
    GotSummary =>
        /\ TheSummary.isDeleted = Includes(TheSummary.filePath, DotDeleted)
        /\ (TheSummary.status = "archived") = TheSummary.isDeleted

\* an archived log with tokens and a stop reason
C2_Witness ==
    /\ GotSummary
    /\ Includes(TheSummary.filePath, DotDeleted)
    /\ TheSummary.status = "archived"
    /\ TheSummary.totalTokens > 0
    /\ StopPositions(SourceLines) # {}

\* C3: a log that is not archived and whose totalTokens is zero is 'idle',
\* also when its messages carry a stopReason but no usage.
C3_ZeroTokensIdle ==
    (GotSummary /\ ~TheSummary.isDeleted /\ TheSummary.totalTokens = 0)
        => TheSummary.status = "idle"

C3_Witness ==
    /\ GotSummary
    /\ ~TheSummary.isDeleted
    /\ TheSummary.totalTokens = 0
    /\ TheSummary.status = "idle"
    /\ StopPositions(SourceLines) # {}

IsSnapshotWithId(line) ==
    /\ line.kind = "json"
    /\ ~line.value.isNull
    /\ line.value.type = {"custom"}
    /\ line.value.customType = {"model-snapshot"}
    /\ line.value.data # {}
    /\ Val(line.value.data).modelId # {}
    /\ Val(line.value.data).modelId # {""}

SnapshotIds(raw) ==
    {Val(Val(raw[i].value.data).modelId) :
        i \in {j \in 1..Len(raw) : IsSnapshotWithId(raw[j])}}

\* C5: when the log holds a model-snapshot custom event carrying a modelId,
\* the summary's model is a model-snapshot modelId, wherever that event sits
\* among the messages and the other model-snapshot events.
C5_SnapshotModelWins ==
    (GotSummary /\ SnapshotIds(SourceLines) # {})
        => TheSummary.model \in SnapshotIds(SourceLines)

\* a custom event carrying a non-empty label
IsLabelEvent(line) ==
    /\ line.kind = "json"
    /\ ~line.value.isNull
    /\ line.value.type = {"custom"}
    /\ line.value.data # {}
    /\ Val(line.value.data).label # {}
    /\ Val(line.value.data).label # {<<>>}

LabelPositions(raw) == {i \in 1..Len(raw) : IsLabelEvent(raw[i])}

FirstLabel(raw) ==
    Val(Val(raw[CHOOSE i \in LabelPositions(raw) :
                   \A j \in LabelPositions(raw) : i <= j].value.data).label)

\* the texts of the messages that state a task
TaskTexts(raw) ==
    {Val(PayloadOf(raw[i]).content[1].text) :
        i \in {j \in 1..Len(raw) :
                 /\ IsMessageEvent(raw[j])
                 /\ PayloadOf(raw[j]).content # <<>>
                 /\ PayloadOf(raw[j]).content[1].text # {}
                 /\ Includes(Val(PayloadOf(raw[j]).content[1].text), YourTask)}}

SubagentKey == Includes(TheSummary.sessionKey, SubagentMarker)

\* the label is 'Sub-agent' or was taken out of a task text
ExtractedOrDefault ==
    \/ TheSummary.label = SubAgentLabel
    \/ \E t \in TaskTexts(SourceLines) : Includes(t, TheSummary.label)

\* C6 as stated: the first label event wins, also under a sub-agent key;
\* without one, a sub-agent key gives an extracted task label or 'Sub-agent'
\* and never 'Main'; otherwise the label is 'Main'.
C6_LabelPriority ==
    GotSummary =>
        IF LabelPositions(SourceLines) # {}
        THEN TheSummary.label = FirstLabel(SourceLines)
        ELSE IF SubagentKey
             THEN ExtractedOrDefault /\ TheSummary.label # MainLabel
             ELSE TheSummary.label = MainLabel

\* C6 amended: under a sub-agent key and without a label event the label is
\* 'Sub-agent' when no message states a task, and otherwise 'Sub-agent' or a
\* piece of a task text, which may itself read 'Main'.
C6_LabelPriorityAmended ==
    GotSummary =>
        IF LabelPositions(SourceLines) # {}
        THEN TheSummary.label = FirstLabel(SourceLines)
        ELSE IF SubagentKey
             THEN /\ ExtractedOrDefault
                  /\ TaskTexts(SourceLines) = {}
                        => TheSummary.label = SubAgentLabel
                  /\ TheSummary.label = MainLabel
                        => \E t \in TaskTexts(SourceLines) : Includes(t, MainLabel)
             ELSE TheSummary.label = MainLabel

\* a sub-agent key, a task text naming a label, and a label event that wins
C6_Witness ==
    /\ GotSummary
    /\ SubagentKey
    /\ \E t \in TaskTexts(SourceLines) : Includes(t, <<"f","i","x">>)
    /\ LabelPositions(SourceLines) # {}
    /\ TheSummary.label = FirstLabel(SourceLines)

----------------------------------------------------------------------------
(* Vocabulary of the store properties *)

\* the session logs in the directory, by role
ActiveLogs == {f \in {ActiveA, ActiveB} : Present(f)}

ArchivedLogs == {f \in {ArchivedA} : Present(f)}

\* the candidates of a listing
Candidates(includeArchived) ==
    ActiveLogs \cup (IF includeArchived THEN ArchivedLogs ELSE {})

MetadataUnreadable(f) == Val(dir[f]).fault = "stat"

\* summarising the file fails: its metadata or its content cannot be read,
\* or its content has a structure the summariser does not expect
Fails(f) ==
    \/ Val(dir[f]).fault # "none"
    \/ \E i \in 1..Len(Val(dir[f]).lines) :
          /\ Val(dir[f]).lines[i].kind = "json"
          /\ Val(dir[f]).lines[i].value.isNull

ModifiedSince(f, t) == Val(dir[f]).mtime >= t

\* the files the returned summaries were computed from
ReturnedPaths == {resp.sessions[i].filePath : i \in 1..Len(resp.sessions)}

NewestFirst ==
    \A i, j \in 1..Len(resp.sessions) :
        i < j => resp.sessions[i].lastUpdated >= resp.sessions[j].lastUpdated

\* the summaries in the response, one per file of the set
ReturnsExactly(files) ==
    /\ ReturnedPaths = files
    /\ Len(resp.sessions) = Cardinality(files)

----------------------------------------------------------------------------
(* Properties of the handlers *)

\* C7: in list sessions, a failure confined to one candidate file
\* (unreadable, metadata unreadable, unexpected structure) excludes only
\* that file: the request succeeds and returns exactly the summaries of the
\* other candidates of the window.
C7_FailureExcludesOnlyThatFile ==
    (resp.op = "list") =>
        \A f \in Candidates(resp.includeArchived) :
            (/\ Fails(f)
             /\ \A g \in Candidates(resp.includeArchived) \ {f} : ~Fails(g))
            => /\ resp.status = 200
               /\ ReturnsExactly(
                     {g \in Candidates(resp.includeArchived) \ {f} :
                         ModifiedSince(g, cutoffOf(resp.activeMinutes))})

\* an archived log of the session, by name
IsArchivedVariant(f, sessionId) == StartsWith(f, sessionId \o JsonlDeleted)

ArchivedVariants(sessionId) ==
    {f \in Names : Present(f) /\ IsArchivedVariant(f, sessionId)}

\* every line of every log is one the summariser takes
WellFormedLogs ==
    \A f \in Names : Present(f) =>
        \A i \in 1..Len(Val(dir[f]).lines) :
            ~(/\ Val(dir[f]).lines[i].kind = "json"
              /\ Val(dir[f]).lines[i].value.isNull)

\* C8 as stated: get session X returns the summary of the active log
\* X.jsonl when it exists, else the summary of an archived variant (status
\* 'archived') when one exists, and not-found exactly when neither exists.
\* Stated for directories of well-formed logs, a log existing when the file
\* system reports it.
C8_GetSessionResolves ==
    (resp.op = "get" /\ WellFormedLogs) =>
        LET active == resp.sessionId \o DotJsonl
            archived == ArchivedVariants(resp.sessionId)
        IN  IF Present(active) /\ ~MetadataUnreadable(active)
            THEN resp.status = 200 /\ ReturnsExactly({active})
            ELSE IF archived # {}
                 THEN /\ resp.status = 200
                      /\ Len(resp.sessions) = 1
                      /\ TheSummary.filePath \in archived
                      /\ TheSummary.status = "archived"
                 ELSE resp.status = 404

\* C8 amended: get session X resolves to the active log X.jsonl when
\* fs.existsSync finds it, else to an archived variant when one is listed;
\* it answers not-found exactly when neither is there, and otherwise the
\* summary of the resolved log (status 'archived' for an archived variant),
\* or a server error when summarising that log fails.
C8_GetSessionResolvesOrFails ==
    (resp.op = "get") =>
        LET active == resp.sessionId \o DotJsonl
            archived == ArchivedVariants(resp.sessionId)
            found == Present(active) /\ ~MetadataUnreadable(active)
            targets == IF found THEN {active} ELSE archived
        IN  /\ (resp.status = 404) = (targets = {})
            /\ targets # {} =>
                 \E t \in targets :
                    IF Fails(t) THEN resp.status = 500
                    ELSE /\ resp.status = 200
                         /\ ReturnsExactly({t})
                         /\ TheSummary.sessionId = resp.sessionId
                         /\ t \in archived => TheSummary.status = "archived"

\* no active log, an archived one, and its summary returned
C8_Witness ==
    /\ resp.op = "get"
    /\ ~Present(resp.sessionId \o DotJsonl)
    /\ ArchivedVariants(resp.sessionId) # {}
    /\ resp.status = 200
    /\ TheSummary.filePath \in ArchivedVariants(resp.sessionId)
    /\ TheSummary.status = "archived"

\* C9: list sessions with window W returns exactly the summaries of the
\* candidates modified at or after now - W, for every requested W, newest
\* first.  Stated for directories in which every candidate summarises.
C9_ListReturnsWindow ==
    (/\ resp.op = "list"
     /\ resp.activeMinutes # {}
     /\ \A f \in Candidates(resp.includeArchived) : ~Fails(f))
    => /\ resp.status = 200
       /\ ReturnsExactly(
             {f \in Candidates(resp.includeArchived) :
                 ModifiedSince(f, now - Val(resp.activeMinutes) * MsPerMinute)})
       /\ NewestFirst

\* the session logs get stats counts
Logs == ActiveLogs \cup ArchivedLogs

TokensOf(f) ==
    SumSeq([i \in 1..Len(Val(dir[f]).lines) |-> TokensIn(Val(dir[f]).lines[i])])

CostOf(f) ==
    SumSeq([i \in 1..Len(Val(dir[f]).lines) |-> CostIn(Val(dir[f]).lines[i])])

TokensOfAll(files) ==
    SumSeq([i \in 1..Len(NameOrder) |->
               IF NameOrder[i] \in files THEN TokensOf(NameOrder[i]) ELSE 0])

CostOfAll(files) ==
    SumSeq([i \in 1..Len(NameOrder) |->
               IF NameOrder[i] \in files THEN CostOf(NameOrder[i]) ELSE 0])

\* C10: in get stats a file whose summarisation fails is still counted in
\* totalSessions, and in archivedCount when archived, and adds nothing to
\* the totals, which are the sums over the files that summarise; the
\* request does not fail for it; activeSessions is totalSessions minus
\* archivedCount.  (A file whose metadata cannot be read fails the request
\* before any summarisation.)
C10_StatsIsolateFailures ==
    (resp.op = "stats") =>
        /\ (resp.status = 500) = (\E f \in Logs : MetadataUnreadable(f))
        /\ resp.status = 200 =>
             /\ resp.stats.totalSessions = Cardinality(Logs)
             /\ resp.stats.archivedCount = Cardinality(ArchivedLogs)
             /\ resp.stats.totalTokens =
                   TokensOfAll({f \in Logs : ~Fails(f)})
             /\ resp.stats.totalCost =
                   CostOfAll({f \in Logs : ~Fails(f)})
             /\ resp.stats.activeSessions =
                   resp.stats.totalSessions - resp.stats.archivedCount

\* an archived log and an active log fail, a third log summarises
C10_Witness ==
    /\ resp.op = "stats"
    /\ resp.status = 200
    /\ \E f \in ArchivedLogs : Fails(f)
    /\ \E f \in ActiveLogs : Fails(f)
    /\ \E f \in ActiveLogs : ~Fails(f)
    /\ resp.stats.totalSessions = 3
    /\ resp.stats.archivedCount = 1
    /\ resp.stats.activeSessions = 2
    /\ resp.stats.totalTokens = 2
    /\ resp.stats.totalCost = 3

----------------------------------------------------------------------------
(* Properties of the summary under ignored lines and growth *)

\* the last step answered GET /api/sessions/:sessionId for a log it found
AnsweredGet == resp.op = "get" /\ resp.status # 404

\* the file that request resolved to
ResolvedPath == Val(resolveSessionFile(resp.sessionId))

\* a line the summariser is to ignore: empty, not JSON, or JSON of none of
\* the shapes session, message, custom
IsIgnoredLine(line) ==
    \/ line.kind # "json"
    \/ line.value.isNull
    \/ line.value.type \cap {"session", "message", "custom"} = {}

IsEventLine(line) == ~IsIgnoredLine(line)

\* C11: lines that are empty, that fail to decode or that decode to none of
\* the recognised shapes do not affect the summary: it is produced without
\* error and equals the summary of the log without those lines.
C11_IgnoredLinesDoNotMatter ==
    AnsweredGet =>
        /\ resp.status = 200
        /\ TheSummary =
              summaryOf(ResolvedPath,
                        [Val(dir[ResolvedPath]) EXCEPT
                            !.lines = SelectSeq(@, IsEventLine)])

\* the totals the summariser computes for a log
TotalsOf(raw) == accumulate(messagelinesOf(decodeLines(raw)), InitAcc)

Prefixes(raw) == {SubSeq(raw, 1, k) : k \in 0..Len(raw)}

\* the totals are not negative and not below those of any earlier state of
\* the log
TotalsGrow ==
    /\ TheSummary.totalTokens >= 0
    /\ TheSummary.totalCost >= 0
    /\ \A earlier \in Prefixes(SourceLines) :
          /\ TheSummary.totalTokens >= TotalsOf(earlier).totalTokens
          /\ TheSummary.totalCost >= TotalsOf(earlier).totalCost

\* C12 as stated: totalTokens and totalCost are never negative and never
\* decrease as a log grows, for every log and every sequence of appended
\* events.
C12_TotalsNeverDecrease == GotSummary => TotalsGrow

\* every count and cost of the log is a number that is not negative
ValidUsage(raw) ==
    \A i \in 1..Len(raw) : TokensIn(raw[i]) >= 0 /\ CostIn(raw[i]) >= 0

\* C12 amended: in a log whose usage counts and costs are not negative,
\* totalTokens and totalCost are never negative and never decrease as the
\* log grows.
C12_ValidTotalsNeverDecrease ==
    (GotSummary /\ ValidUsage(SourceLines)) => TotalsGrow

\* a log of valid usage that grew by two messages, the totals growing
C12_Witness ==
    /\ GotSummary
    /\ ValidUsage(SourceLines)
    /\ Len(SourceLines) = 3
    /\ TotalsOf(SubSeq(SourceLines, 1, 1)).totalTokens = 2
    /\ TotalsOf(SubSeq(SourceLines, 1, 2)).totalTokens = 3
    /\ TotalsOf(SubSeq(SourceLines, 1, 2)).totalCost = 3
    /\ TheSummary.totalTokens = 3
    /\ TheSummary.totalCost = 5

----------------------------------------------------------------------------
(* Fetching back what the list returned *)

\* C13: on an unchanged store (here one of readable, well-formed logs) every
\* summary that list sessions returns can be fetched back: get session with its sessionId answers with the summary
\* of the same log file, not with 404 and not with another file's summary.
C13_ListedCanBeFetched ==
    [][(/\ WellFormedLogs
        /\ resp.op = "list" /\ resp.status = 200 /\ resp'.op = "get") =>
          \A i \in 1..Len(resp.sessions) :
              resp.sessions[i].sessionId = resp'.sessionId =>
                  /\ resp'.status = 200
                  /\ resp'.sessions[1] = resp.sessions[i]]_vars

----------------------------------------------------------------------------
(* A log renamed while a request for it is in flight *)

\* C14: if the agent archives (renames) a session's log at any point while
\* a get session request is in flight, the request still ends with that
\* session's summary or with not-found; no interleaving of the rename with
\* the existence check, the directory lookup and the read ends in a server
\* error.  The logs of this specification are all readable and well-formed.
C14_RenameNeverFails ==
    resp.op = "get" =>
        \/ resp.status = 404
        \/ /\ resp.status = 200
           /\ TheSummary.sessionId = resp.sessionId

====
